---- MODULE Spec2Model ----
(***************************************************************************)
(* Model of caesium's piler.py: the XMM register allocator, the ASM        *)
(* generator (an ast.NodeVisitor) and the transpile_to_asm driver.         *)
(*                                                                         *)
(* A function's AST is a tree of records tagged with the ast class name in *)
(* the field "type".  An emitted line is a record [mn, dst, src, cmt]      *)
(* holding the mnemonic, the two operands and the trailing comment of the  *)
(* text line the generator appends.  The generator object is a record; a   *)
(* raised exception is carried in its field exc and stops every later      *)
(* step, as an uncaught Python exception does.                             *)
(***************************************************************************)
EXTENDS Integers, Sequences, FiniteSets, TLC

VARIABLES func, gen, asm_file, pc, reg_alloc, last_op, last_exc

vars == <<func, gen, asm_file, pc, reg_alloc, last_op, last_exc>>

-----------------------------------------------------------------------------
(* Bounds of the explored inputs.                                          *)

\* longest chain  l1 + l2 + ... + lk  of distinct leaves given to the compiler
MaxChain == 17
\* largest number of loops placed one after the other in a function body
MaxLoops == 3
\* number of distinct keys a client of the register pool may ask for
MaxKeys == 17

NoExc == "None"
NoReg == "None"
NoFile == <<[mn |-> "no file", dst |-> "", src |-> "", cmt |-> ""]>>

-----------------------------------------------------------------------------
(* Utilities                                                               *)

RECURSIVE Log2(_)
\* floor(log2(k)) for k >= 1
Log2(k) == IF k < 2 THEN 0 ELSE 1 + Log2(k \div 2)

RECURSIVE Pow2(_)
Pow2(n) == IF n = 0 THEN 1 ELSE 2 * Pow2(n - 1)

HexDigits == <<"0", "1", "2", "3", "4", "5", "6", "7",
               "8", "9", "a", "b", "c", "d", "e", "f">>

\* three hexadecimal digits of a 12-bit number
Hex3(n) == HexDigits[(n \div 256) + 1] \o HexDigits[((n \div 16) % 16) + 1]
              \o HexDigits[(n % 16) + 1]

\* A numeric literal is [ty, whole, frac]: the int  whole  (frac = 0) or the
\* float  whole.frac  with frac in {0, 5}.  Halves(v) is twice its value.
Halves(v) == 2 * v.whole + (IF v.frac = 5 THEN 1 ELSE 0)

\* str(value) as the f-strings of the generator format it
PyStr(v) == IF v.ty = "int" THEN ToString(v.whole)
            ELSE ToString(v.whole) \o "." \o ToString(v.frac)

\* hex(struct.unpack("<Q", struct.pack("<d", f))[0]): the IEEE-754 binary64
\* pattern of f.  For f = k/2 > 0 with p = floor(log2 k): the biased exponent
\* is p - 1 + 1023 and the 52-bit fraction is (k - 2^p) * 2^(52 - p); the
\* fraction's top 12 bits are (k - 2^p) * 2^(12 - p) and the other 40 are 0.
float_to_hex(f) ==
    LET k == Halves(f)
        p == Log2(k)
    IN  IF k = 0 THEN "0x0"
        ELSE "0x" \o Hex3(p + 1022) \o Hex3((k - Pow2(p)) * Pow2(12 - p))
                  \o "0000000000"

\* list.index(x), 0-based; -1 stands for the ValueError of a missing element
Index(lst, x) ==
    IF \E i \in 1..Len(lst) : lst[i] = x
    THEN (CHOOSE i \in 1..Len(lst) : lst[i] = x /\ \A j \in 1..(i-1) : lst[j] # x) - 1
    ELSE -1

-----------------------------------------------------------------------------
(* Registers                                                               *)

XMM_REGS == <<"xmm0", "xmm1", "xmm2", "xmm3", "xmm4", "xmm5", "xmm6", "xmm7",
              "xmm8", "xmm9", "xmm10", "xmm11", "xmm12", "xmm13", "xmm14", "xmm15">>

GENERAL_REGS == <<"rdi", "rsi", "rdx", "rcx", "r8", "r9">>

\* RegisterAllocator.__init__
RegisterAllocator == [free_xmm |-> XMM_REGS, used_xmm |-> [k \in {} |-> NoReg]]

\* the same allocation, with the register left at the head of the free list
allocate_xmm_nopop(ra, name) ==
    IF name \in DOMAIN ra.used_xmm
    THEN [ra |-> ra, reg |-> ra.used_xmm[name], exc |-> NoExc]
    ELSE IF ra.free_xmm = <<>>
    THEN [ra |-> ra, reg |-> NoReg, exc |-> "RuntimeError"]
    ELSE [ra  |-> [free_xmm |-> ra.free_xmm,
                   used_xmm |-> [k \in DOMAIN ra.used_xmm \cup {name} |->
                                   IF k = name THEN Head(ra.free_xmm)
                                   ELSE ra.used_xmm[k]]],
          reg |-> Head(ra.free_xmm), exc |-> NoExc]

\* RegisterAllocator.allocate_xmm: the allocator after the call, the register
\* returned and the exception raised
allocate_xmm(ra, name) ==
    IF name \in DOMAIN ra.used_xmm
    THEN [ra |-> ra, reg |-> ra.used_xmm[name], exc |-> NoExc]
    ELSE IF ra.free_xmm = <<>>
    THEN [ra |-> ra, reg |-> NoReg, exc |-> "RuntimeError"]
    ELSE [ra  |-> [free_xmm |-> Tail(ra.free_xmm),
                   used_xmm |-> [k \in DOMAIN ra.used_xmm \cup {name} |->
                                   IF k = name THEN Head(ra.free_xmm)
                                   ELSE ra.used_xmm[k]]],
          reg |-> Head(ra.free_xmm), exc |-> NoExc]

\* RegisterAllocator.free_all
free_all(ra) == [free_xmm |-> XMM_REGS, used_xmm |-> [k \in {} |-> NoReg]]

-----------------------------------------------------------------------------
(* ASM Generator                                                           *)

Line(mn, dst, src, cmt) == [mn |-> mn, dst |-> dst, src |-> src, cmt |-> cmt]

\* ASMGenerator.__init__.  The fields exc, ret and calls are not attributes of
\* the Python object: exc is the exception in flight, ret the value returned
\* by the last visitor call, and calls the record of the visitor calls made
\* so far (which visitor, on which key, the register it returned, and the
\* number of emitted lines before and after it).
ASMGenerator(func_name, args) ==
    [func_name |-> func_name, args |-> args, lines |-> <<>>,
     reg_alloc |-> RegisterAllocator, loop_count |-> 0,
     exc |-> NoExc, ret |-> NoReg, calls |-> <<>>]

Emit(g, line) == [g EXCEPT !.lines = Append(@, line)]

Raise(g, e) == [g EXCEPT !.exc = e, !.ret = NoReg]

Called(g0, g, fn, key, ret) ==
    [g EXCEPT !.ret = ret,
              !.calls = Append(@, [fn |-> fn, key |-> key, ret |-> ret,
                                   pre |-> Len(g0.lines), post |-> Len(g.lines)])]

generate_prologue(g) ==
    [g EXCEPT !.lines = @ \o
        << Line("section", ".text", "", ""),
           Line("global", g.func_name, "", ""),
           Line("label", g.func_name, "", ""),
           Line("", "", "", "Function prologue"),
           Line("push", "rbp", "", ""),
           Line("mov", "rbp", "rsp", ""),
           Line("", "", "", "Assume float args in rdi, rsi, rdx, rcx, r8, r9") >>]

generate_epilogue(g) ==
    [g EXCEPT !.lines = @ \o
        << Line("", "", "", "Function epilogue"),
           Line("pop", "rbp", "", ""),
           Line("ret", "", "", "") >>]

\* the load is emitted only when the name gets its register
visit_Name_once(g, node) ==
    LET idx == Index(g.args, node.id)
        a   == allocate_xmm(g.reg_alloc, node.id)
        g1  == [g EXCEPT !.reg_alloc = a.ra]
        g2  == IF node.id \in DOMAIN g.reg_alloc.used_xmm THEN g1
               ELSE Emit(g1, Line("movq", a.reg, GENERAL_REGS[idx + 1],
                                  "Load argument " \o node.id))
    IN  IF idx = -1 THEN Raise(g, "ValueError")
        ELSE IF idx >= Len(GENERAL_REGS) THEN Raise(g, "IndexError")
        ELSE IF a.exc # NoExc THEN Raise(g, a.exc)
        ELSE Called(g, g2, "visit_Name", node.id, a.reg)

\* ASMGenerator.visit_Name
visit_Name(g, node) ==
    LET idx == Index(g.args, node.id)
        a   == allocate_xmm(g.reg_alloc, node.id)
        g1  == [g EXCEPT !.reg_alloc = a.ra]
        g2  == Emit(g1, Line("movq", a.reg, GENERAL_REGS[idx + 1],
                             "Load argument " \o node.id))
    IN  IF idx = -1 THEN Raise(g, "ValueError")
        ELSE IF idx >= Len(GENERAL_REGS) THEN Raise(g, "IndexError")
        ELSE IF a.exc # NoExc THEN Raise(g, a.exc)
        ELSE Called(g, g2, "visit_Name", node.id, a.reg)

\* ASMGenerator.visit_Constant
visit_Constant(g, node) ==
    LET key    == "const_" \o PyStr(node.value)
        a      == allocate_xmm(g.reg_alloc, key)
        hexval == float_to_hex(node.value)
        g1     == [g EXCEPT !.reg_alloc = a.ra]
        g2     == Emit(g1, Line("mov", "rax", hexval,
                                "Load constant " \o PyStr(node.value)))
        g3     == Emit(g2, Line("movq", a.reg, "rax", ""))
    IN  IF a.exc # NoExc THEN Raise(g, a.exc)
        ELSE Called(g, g3, "visit_Constant", key, a.reg)

\* ASMGenerator.binop_to_asm: the line, or the exception raised
binop_to_asm(op, left, right) ==
    IF op = "Add" THEN [line |-> Line("addsd", left, right, "add"), exc |-> NoExc]
    ELSE IF op = "Sub" THEN [line |-> Line("subsd", left, right, "sub"), exc |-> NoExc]
    ELSE IF op = "Mult" THEN [line |-> Line("mulsd", left, right, "mul"), exc |-> NoExc]
    ELSE IF op = "Div" THEN [line |-> Line("divsd", left, right, "div"), exc |-> NoExc]
    ELSE [line |-> Line("", "", "", ""), exc |-> "NotImplementedError"]

RECURSIVE visit(_, _), visit_all(_, _), generic_visit(_, _), visit_FunctionDef(_, _),
          visit_Return(_, _), visit_BinOp(_, _), visit_For(_, _), evaluate_node(_, _)

\* "for stmt in ...: self.visit(stmt)"; an exception ends the loop
visit_all(g, nodes) ==
    IF nodes = <<>> \/ g.exc # NoExc THEN g
    ELSE visit_all(visit(g, Head(nodes)), Tail(nodes))

\* the child nodes ast.iter_fields yields, in the order of the class's _fields
Children(node) ==
    CASE node.type = "If"      -> <<node.test>> \o node.body \o node.orelse
      [] node.type = "Compare" -> <<node.left>> \o node.comparators
      [] node.type = "Assign"  -> node.targets \o <<node.value>>
      [] node.type = "UnaryOp" -> <<node.operand>>
      [] node.type = "Expr"    -> <<node.value>>
      [] OTHER                 -> <<>>

\* ast.NodeVisitor.generic_visit, inherited by ASMGenerator: visits the
\* children and returns None
generic_visit(g, node) ==
    LET g1 == visit_all(g, Children(node))
    IN  IF g1.exc # NoExc THEN g1 ELSE [g1 EXCEPT !.ret = NoReg]

\* ASMGenerator.visit_FunctionDef
visit_FunctionDef(g, node) ==
    LET g1 == visit_all(generate_prologue(g), node.body)
    IN  IF g1.exc # NoExc THEN g1
        ELSE [generate_epilogue(g1) EXCEPT !.ret = NoReg]

\* ASMGenerator.visit_Return
visit_Return(g, node) ==
    LET g1 == visit(g, node.value)
    IN  IF g1.exc # NoExc THEN g1
        ELSE Called(g, g1, "visit_Return", node.value.type, NoReg)

\* ASMGenerator.visit_BinOp
visit_BinOp(g, node) ==
    LET g1 == evaluate_node(g, node.left)
        g2 == evaluate_node(g1, node.right)
        a  == binop_to_asm(node.op, g1.ret, g2.ret)
    IN  IF g1.exc # NoExc THEN g1
        ELSE IF g2.exc # NoExc THEN g2
        ELSE IF a.exc # NoExc THEN Raise(g2, a.exc)
        ELSE [Emit(g2, a.line) EXCEPT !.ret = NoReg]

\* the same lowering, with the loop counter of the generator left as it was
visit_For_samecount(g, node) ==
    LET loop_id   == ToString(g.loop_count + 1)
        g1        == Emit(g, Line("", "", "", "Begin loop " \o loop_id))
        range_arg == node.iter.args[1]
        n_var     == IF range_arg.type = "Name" THEN range_arg.id
                     ELSE IF range_arg.type = "Constant" THEN PyStr(range_arg.value)
                     ELSE "n"
        g2        == Emit(g1, Line("mov", "rcx", n_var, "loop counter"))
        g3        == Emit(g2, Line("label", "loop_" \o loop_id, "", ""))
        g4        == visit_all(g3, node.body)
        g5        == Emit(g4, Line("dec", "rcx", "", ""))
        g6        == Emit(g5, Line("jnz", "loop_" \o loop_id, "", ""))
        g7        == IF node.iter.type = "Call" /\ node.iter.func.id = "range"
                     THEN g6 ELSE g1
        g8        == Emit(g7, Line("", "", "", "End loop " \o loop_id))
    IN  IF g7.exc # NoExc THEN g7
        ELSE Called(g, g8, "visit_For", "loop_" \o loop_id, NoReg)

\* ASMGenerator.visit_For
visit_For(g, node) ==
    LET loop_id   == ToString(g.loop_count + 1)
        g1        == Emit([g EXCEPT !.loop_count = @ + 1],
                          Line("", "", "", "Begin loop " \o loop_id))
        range_arg == node.iter.args[1]
        n_var     == IF range_arg.type = "Name" THEN range_arg.id
                     ELSE IF range_arg.type = "Constant" THEN PyStr(range_arg.value)
                     ELSE "n"
        g2        == Emit(g1, Line("mov", "rcx", n_var, "loop counter"))
        g3        == Emit(g2, Line("label", "loop_" \o loop_id, "", ""))
        g4        == visit_all(g3, node.body)
        g5        == Emit(g4, Line("dec", "rcx", "", ""))
        g6        == Emit(g5, Line("jnz", "loop_" \o loop_id, "", ""))
        g7        == IF node.iter.type = "Call" /\ node.iter.func.id = "range"
                     THEN g6 ELSE g1
        g8        == Emit(g7, Line("", "", "", "End loop " \o loop_id))
    IN  IF g7.exc # NoExc THEN g7
        ELSE Called(g, g8, "visit_For", "loop_" \o loop_id, NoReg)

\* ASMGenerator.evaluate_node
evaluate_node(g, node) ==
    IF node.type = "BinOp"
    THEN LET g1 == visit_BinOp(g, node)
             a  == allocate_xmm(g1.reg_alloc, "tmp")
         IN  IF g1.exc # NoExc THEN g1
             ELSE IF a.exc # NoExc THEN Raise(g1, a.exc)
             ELSE Called(g, [g1 EXCEPT !.reg_alloc = a.ra], "evaluate_node", "BinOp", a.reg)
    ELSE IF node.type = "Name" THEN visit_Name(g, node)
    ELSE IF node.type = "Constant" THEN visit_Constant(g, node)
    ELSE Raise(g, "NotImplementedError")

\* ast.NodeVisitor.visit, inherited by ASMGenerator: the visit_<class> method
\* when the class has one, generic_visit otherwise
visit(g, node) ==
    IF g.exc # NoExc THEN g
    ELSE CASE node.type = "FunctionDef" -> visit_FunctionDef(g, node)
           [] node.type = "Return"      -> visit_Return(g, node)
           [] node.type = "BinOp"       -> visit_BinOp(g, node)
           [] node.type = "Name"        -> visit_Name(g, node)
           [] node.type = "Constant"    -> visit_Constant(g, node)
           [] node.type = "For"         -> visit_For(g, node)
           [] OTHER                     -> generic_visit(g, node)

\* transpile_to_asm, up to the write of the file: the generator after the
\* visit of the function node
transpile_to_asm(func_node) ==
    visit(ASMGenerator(func_node.name, func_node.args), func_node)

-----------------------------------------------------------------------------
(* The functions given to the compiler: ast nodes as ast.parse builds them *)

PyInt(n) == [ty |-> "int", whole |-> n, frac |-> 0]
PyFloat(w, f) == [ty |-> "float", whole |-> w, frac |-> f]

Name(id) == [type |-> "Name", id |-> id]
Constant(v) == [type |-> "Constant", value |-> v]
BinOp(l, op, r) == [type |-> "BinOp", left |-> l, op |-> op, right |-> r]
UnaryOp(e) == [type |-> "UnaryOp", operand |-> e]
Compare(l, cs) == [type |-> "Compare", left |-> l, comparators |-> cs]
Call(f, as) == [type |-> "Call", func |-> Name(f), args |-> as]
Return(e) == [type |-> "Return", value |-> e]
Assign(ts, e) == [type |-> "Assign", targets |-> ts, value |-> e]
If(t, b, o) == [type |-> "If", test |-> t, body |-> b, orelse |-> o]
For(t, it, b) == [type |-> "For", target |-> Name(t), iter |-> it, body |-> b]
FunctionDef(n, as, b) == [type |-> "FunctionDef", name |-> n, args |-> as, body |-> b]

\* a, b, c are parameters of the functions below; m is a name of no parameter
Leaves == { Name("a"), Name("b"), Name("c"), Name("m"),
            Constant(PyInt(1)), Constant(PyFloat(1, 0)), Constant(PyFloat(2, 5)),
            UnaryOp(Name("a")) }

Ops == {"Add", "Sub", "Mult", "Div", "Pow"}

\* x op y
Flat == { BinOp(l, op, r) : l \in Leaves, op \in Ops, r \in Leaves }

SumLeaves == { Name("a"), Name("b"), Constant(PyFloat(1, 0)) }
Sums == { BinOp(l, "Add", r) : l \in SumLeaves, r \in SumLeaves }
ProdLeaves == { Name("a"), Name("c"), Constant(PyFloat(2, 5)) }

\* (x + y) * z,  z * (x + y)  and  (x + y) * (z + w)
Nested == { BinOp(l, "Mult", r) : l \in Sums, r \in Sums \cup ProdLeaves }
          \cup { BinOp(l, "Mult", r) : l \in ProdLeaves, r \in Sums }

\* the i-th leaf of a chain: the six parameters, then the literals 1.0, 2.0, ...
ChainArgs == <<"a", "b", "c", "d", "e", "f">>
ChainLeaf(i) == IF i <= Len(ChainArgs) THEN Name(ChainArgs[i])
                ELSE Constant(PyFloat(i - Len(ChainArgs), 0))

RECURSIVE Chain(_)
\* l1 + l2 + ... + lk, which Python parses as (...((l1 + l2) + l3)...) + lk
Chain(k) == IF k = 1 THEN ChainLeaf(1)
            ELSE BinOp(Chain(k - 1), "Add", ChainLeaf(k))

\* the bodies of the loops: an assignment, a return of the induction variable,
\* a return of a parameter, a conditional and an inner loop
Doubling == Assign(<<Name("a")>>, BinOp(Name("a"), "Mult", Constant(PyFloat(2, 0))))
Guarded == If(Compare(Name("a"), <<Name("b")>>), <<Return(Name("a"))>>, <<>>)

TripCounts == { Name("a"), Name("m"), Constant(PyInt(3)),
                BinOp(Name("a"), "Add", Constant(PyInt(1))) }

FlatLoops == { For("i", Call("range", <<n>>), <<s>>) :
                 n \in TripCounts,
                 s \in {Doubling, Return(Name("i")), Return(Name("b")), Guarded} }

Loops == FlatLoops
         \cup { For("i", Call("range", <<Constant(PyInt(3))>>), <<l>>) :
                  l \in { For("j", Call("range", <<n>>), <<Doubling>>) :
                            n \in {Name("b"), Constant(PyInt(2))} } }
         \cup { For("i", Call("range", <<Constant(PyInt(2))>>),
                    << For("j", Call("range", <<Constant(PyInt(2))>>), <<Doubling>>),
                       For("k", Call("range", <<Name("a")>>), <<Doubling>>) >>),
                For("x", Name("xs"), <<Doubling>>),
                For("x", Call("len", <<Name("a")>>), <<Doubling>>) }

RECURSIVE Seqs(_, _)
\* the sequences of 1 to n elements of S
Seqs(S, n) == IF n = 0 THEN {}
              ELSE { <<x>> : x \in S }
                   \cup { Append(q, x) : q \in Seqs(S, n - 1), x \in S }

SeqLoops == { For("i", Call("range", <<n>>), <<Doubling>>) :
                n \in {Name("a"), Constant(PyInt(3))} }
            \cup { For("i", Call("range", <<Constant(PyInt(2))>>),
                       <<For("j", Call("range", <<Name("b")>>), <<Doubling>>)>>) }

Results == { Name("a"), Name("b"), Constant(PyFloat(2, 5)),
             BinOp(Name("a"), "Add", Name("b")),
             BinOp(BinOp(Name("a"), "Add", Name("b")), "Mult", Name("c")) }

Bodies ==
    { <<Return(e)>> : e \in Leaves \cup Flat \cup Nested }
    \cup { <<l, Return(e)>> : l \in Loops, e \in Results }
    \cup { Append(q, Return(Name("a"))) : q \in Seqs(SeqLoops, MaxLoops) }
    \cup { <<If(Compare(Name("a"), <<t>>), <<Return(e1)>>, o), Return(e2)>> :
             t \in {Name("b"), Name("m"), Constant(PyInt(1))},
             e1 \in Results, e2 \in Results,
             o \in {<<>>, <<Return(Name("c"))>>} }
    \cup { <<Doubling, Return(e)>> : e \in Results }

Funcs ==
    { FunctionDef("f", <<"a", "b", "c">>, b) : b \in Bodies }
    \cup { FunctionDef("chain", ChainArgs, <<Return(Chain(k))>>) : k \in 2..MaxChain }
    \cup { FunctionDef("g", <<"a", "b", "c", "d", "e", "f", "g">>, <<Return(Name(n))>>) :
             n \in {"f", "g"} }
    \cup { FunctionDef("t", <<"tmp", "a", "b">>,
                       <<Return(BinOp(BinOp(Name("a"), "Add", Name("b")), "Mult", Name("tmp")))>>),
           FunctionDef("k", <<"const_1", "a">>,
                       <<Return(BinOp(Name("const_1"), "Add", Constant(PyInt(1))))>>),
           FunctionDef("h", <<"i", "a">>,
                       <<For("i", Call("range", <<Constant(PyInt(3))>>), <<Return(Name("i"))>>),
                         Return(Name("a"))>>) }

-----------------------------------------------------------------------------
(* The compilation of one function                                         *)

Init ==
    /\ func \in Funcs
    /\ gen = ASMGenerator(func.name, func.args)
    /\ asm_file = NoFile
    /\ pc = "start"
    /\ reg_alloc = RegisterAllocator
    /\ last_op = "__init__"
    /\ last_exc = NoExc

\* transpile_to_asm(func): the function is lowered and, unless the lowering
\* raised, the lines are written to the file
Transpile ==
    /\ pc = "start"
    /\ gen' = transpile_to_asm(func)
    /\ asm_file' = IF gen'.exc = NoExc THEN gen'.lines ELSE asm_file
    /\ pc' = IF gen'.exc = NoExc THEN "done" ELSE "raised"
    /\ UNCHANGED <<func, reg_alloc, last_op, last_exc>>

Next == Transpile

Spec == Init /\ [][Next]_vars

-----------------------------------------------------------------------------
(* A register pool used directly: any sequence of allocate_xmm and         *)
(* free_all calls on one RegisterAllocator                                 *)

KeyName(i) == "k" \o ToString(i)

Bound(ra) == DOMAIN ra.used_xmm
Unbound(ra) == { i \in 1..MaxKeys : KeyName(i) \notin Bound(ra) }

\* the first and the last element of a set of numbers
Ends(S) == { j \in S : (\A h \in S : j <= h) \/ (\A h \in S : j >= h) }

\* The keys a caller asks for: the first and the last of the keys that have a
\* register, and the first and the last of those that have none (the allocator
\* compares keys by equality only, so which of the bound keys, and which of
\* the new ones, is asked for makes no difference to it).
Requested(ra) ==
    { KeyName(i) : i \in Ends((1..MaxKeys) \ Unbound(ra)) \cup Ends(Unbound(ra)) }

InitPool ==
    /\ func = FunctionDef("f", <<"a", "b", "c">>, <<Return(Name("a"))>>)
    /\ gen = ASMGenerator(func.name, func.args)
    /\ asm_file = NoFile
    /\ pc = "start"
    /\ reg_alloc = RegisterAllocator
    /\ last_op = "__init__"
    /\ last_exc = NoExc

Allocate(name) ==
    /\ reg_alloc' = allocate_xmm(reg_alloc, name).ra
    /\ last_exc' = allocate_xmm(reg_alloc, name).exc
    /\ last_op' = "allocate_xmm"
    /\ UNCHANGED <<func, gen, asm_file, pc>>

FreeAll ==
    /\ reg_alloc' = free_all(reg_alloc)
    /\ last_exc' = NoExc
    /\ last_op' = "free_all"
    /\ UNCHANGED <<func, gen, asm_file, pc>>

NextPool == (\E name \in Requested(reg_alloc) : Allocate(name)) \/ FreeAll

PoolSpec == InitPool /\ [][NextPool]_vars

-----------------------------------------------------------------------------
(* Properties of the register pool                                         *)

Range(q) == { q[i] : i \in 1..Len(q) }
Regs == Range(XMM_REGS)
Assigned(ra) == { ra.used_xmm[k] : k \in DOMAIN ra.used_xmm }

\* every register is either free or assigned, never both; the free list and
\* the mapping hold no register twice
PoolPartition(ra) ==
    /\ \A r \in Regs : (r \in Range(ra.free_xmm)) # (r \in Assigned(ra))
    /\ Range(ra.free_xmm) \cup Assigned(ra) = Regs
    /\ Cardinality(Range(ra.free_xmm)) = Len(ra.free_xmm)
    /\ \A k1, k2 \in DOMAIN ra.used_xmm :
          ra.used_xmm[k1] = ra.used_xmm[k2] => k1 = k2

\* an entry of the mapping is still there, with the same register
EntriesKept(ra1, ra2) ==
    \A k \in DOMAIN ra1.used_xmm :
        k \in DOMAIN ra2.used_xmm /\ ra2.used_xmm[k] = ra1.used_xmm[k]

\* C9: after any sequence of allocate_xmm and free_all calls, failed
\* allocations included, each of the 16 registers is in exactly one of the
\* free list and the mapping, no register is bound to two keys, and an
\* allocate_xmm call keeps every entry of the mapping as it was.
C9_PoolInvariant ==
    /\ [](PoolPartition(reg_alloc))
    /\ [][last_op' = "allocate_xmm" => EntriesKept(reg_alloc, reg_alloc')]_vars

\* an allocation has just failed on the exhausted pool
C9_Witness ==
    /\ last_op = "allocate_xmm"
    /\ last_exc = "RuntimeError"
    /\ reg_alloc.free_xmm = <<>>
    /\ Cardinality(DOMAIN reg_alloc.used_xmm) = Len(XMM_REGS)

-----------------------------------------------------------------------------
(* The function under compilation, as the properties below read it         *)

RECURSIVE StmtsIn(_)
\* the statements of a body and of the bodies nested in it, in source order
StmtsIn(ss) ==
    IF ss = <<>> THEN <<>>
    ELSE LET s == Head(ss)
             inner == CASE s.type = "For" -> StmtsIn(s.body)
                        [] s.type = "If"  -> StmtsIn(s.body) \o StmtsIn(s.orelse)
                        [] OTHER          -> <<>>
         IN  <<s>> \o inner \o StmtsIn(Tail(ss))

\* for <var> in range(...)
IsCountedLoop(s) ==
    s.type = "For" /\ s.iter.type = "Call" /\ s.iter.func.id = "range"

\* the trip count <n> of a counted loop is a name or a literal
TripInGrammar(s) == s.iter.args[1].type \in {"Name", "Constant"}

IsFor(s) == s.type = "For"

\* the for statements of the function in source order
ForsOf(f) == SelectSeq(StmtsIn(f.body), IsFor)

RECURSIVE ExprInGrammar(_)
\* a name, a literal, or a binary operation of two such expressions
ExprInGrammar(e) ==
    CASE e.type \in {"Name", "Constant"} -> TRUE
      [] e.type = "BinOp" -> ExprInGrammar(e.left) /\ ExprInGrammar(e.right)
      [] OTHER -> FALSE

\* every statement is a return of a supported expression or a counted loop
\* whose trip count is a name or a literal
InGrammar(f) ==
    \A i \in 1..Len(StmtsIn(f.body)) :
        LET s == StmtsIn(f.body)[i]
        IN  \/ s.type = "Return" /\ ExprInGrammar(s.value)
            \/ IsCountedLoop(s) /\ TripInGrammar(s)

RECURSIVE NamesOf(_)
\* the names an expression refers to
NamesOf(e) ==
    CASE e.type = "Name"  -> {e.id}
      [] e.type = "BinOp" -> NamesOf(e.left) \cup NamesOf(e.right)
      [] OTHER            -> {}

RECURSIVE LiteralsOf(_)
\* the bit patterns of the literals of an expression
LiteralsOf(e) ==
    CASE e.type = "Constant" -> {float_to_hex(e.value)}
      [] e.type = "BinOp"    -> LiteralsOf(e.left) \cup LiteralsOf(e.right)
      [] OTHER               -> {}

RECURSIVE Temporaries(_)
\* the number of binary operations of an expression that are operands of
\* another one: those whose result needs a temporary
Temporaries(e) ==
    IF e.type # "BinOp" THEN 0
    ELSE Temporaries(e.left) + Temporaries(e.right)
         + (IF e.left.type = "BinOp" THEN 1 ELSE 0)
         + (IF e.right.type = "BinOp" THEN 1 ELSE 0)

\* the names a function in the grammar refers to: in the returned
\* expressions and as trip counts
NamesUsed(f) ==
    UNION { LET s == StmtsIn(f.body)[i]
            IN  IF s.type = "Return" THEN NamesOf(s.value)
                ELSE NamesOf(s.iter.args[1]) : i \in 1..Len(StmtsIn(f.body)) }

RECURSIVE LinesOf(_), LinesOfAll(_)
\* the number of lines the lowering of a node takes: one load per name, two
\* per literal, one instruction per binary operation, six lines around the
\* body of a counted loop
LinesOf(n) ==
    CASE n.type = "Name"     -> 1
      [] n.type = "Constant" -> 2
      [] n.type = "BinOp"    -> LinesOf(n.left) + LinesOf(n.right) + 1
      [] n.type = "Return"   -> LinesOf(n.value)
      [] n.type = "For"      -> 6 + LinesOfAll(n.body)
      [] OTHER               -> LinesOfAll(Children(n))

LinesOfAll(ns) == IF ns = <<>> THEN 0 ELSE LinesOf(Head(ns)) + LinesOfAll(Tail(ns))

\* the calls of one visitor made during the compilation
CallsOf(fn) == { i \in 1..Len(gen.calls) : gen.calls[i].fn = fn }

Arithmetic == {"addsd", "subsd", "mulsd", "divsd"}

-----------------------------------------------------------------------------
(* Properties of the compilation                                           *)

\* the register the value of the returned expression is left in: the
\* destination of the last line emitted for the final return statement
ReturnReg == gen.lines[gen.calls[Len(gen.calls)].post].dst

EndsInReturn(f) ==
    /\ f.body # <<>>
    /\ f.body[Len(f.body)].type = "Return"
    /\ ExprInGrammar(f.body[Len(f.body)].value)

\* C1: when a function whose body ends in a return statement compiles, the
\* value of the returned expression is in xmm0: the register holding it is
\* xmm0, or a move from that register into xmm0 follows.
C1_ReturnInXmm0 ==
    (pc = "done" /\ EndsInReturn(func)) =>
        \/ ReturnReg = "xmm0"
        \/ \E k \in (gen.calls[Len(gen.calls)].post + 1)..Len(gen.lines) :
              /\ gen.lines[k].mn \in {"movq", "movsd", "movapd"}
              /\ gen.lines[k].dst = "xmm0"
              /\ gen.lines[k].src = ReturnReg

\* a statement other than a return or a counted loop, at any depth
HasUnsupportedStatement(f) ==
    \E i \in 1..Len(StmtsIn(f.body)) :
        LET s == StmtsIn(f.body)[i]
        IN  s.type # "Return" /\ ~IsCountedLoop(s)

\* C2: a function body containing a statement other than a return or a
\* counted loop makes the compilation fail, and nothing is written.
C2_UnsupportedStatementFails ==
    (pc # "start" /\ HasUnsupportedStatement(func)) =>
        (pc = "raised" /\ asm_file = NoFile)

\* C3: the registers returned for two distinct binary-operation nodes differ,
\* and neither is a register assigned to a parameter or a constant.
C3_TemporariesDistinct ==
    \A i \in CallsOf("evaluate_node") :
        /\ \A j \in CallsOf("evaluate_node") :
              i # j => gen.calls[i].ret # gen.calls[j].ret
        /\ \A j \in CallsOf("visit_Name") \cup CallsOf("visit_Constant") :
              gen.calls[i].ret # gen.calls[j].ret

\* the loads of literals: the lines  mov rax, <bit pattern>
ConstantLoads ==
    { k \in 1..Len(gen.lines) : gen.lines[k].mn = "mov" /\ gen.lines[k].dst = "rax" }

\* C4: two literals get the same register exactly when they have the same
\* 64-bit pattern.
C4_ConstantsByValue ==
    \A i, j \in ConstantLoads :
        (gen.lines[i].src = gen.lines[j].src)
            <=> (gen.lines[i + 1].dst = gen.lines[j + 1].dst)

\* the returned expressions of a function
Returned(f) ==
    { StmtsIn(f.body)[i].value :
        i \in { j \in 1..Len(StmtsIn(f.body)) : StmtsIn(f.body)[j].type = "Return" } }

RECURSIVE TemporariesIn(_)
\* the temporaries of the returned expressions of a sequence of statements
TemporariesIn(ss) ==
    IF ss = <<>> THEN 0
    ELSE (IF Head(ss).type = "Return" THEN Temporaries(Head(ss).value) ELSE 0)
         + TemporariesIn(Tail(ss))

\* the number of distinct symbolic values of a function: the parameters and
\* the literals its expressions refer to and the temporaries of its nested
\* operations
SymbolicValues(f) ==
    Cardinality(UNION { NamesOf(e) : e \in Returned(f) })
    + Cardinality(UNION { LiteralsOf(e) : e \in Returned(f) })
    + TemporariesIn(StmtsIn(f.body))

\* C5: a function of returns and counted loops that refers to more than 16
\* distinct symbolic values fails to compile with the pool-exhausted error,
\* raised by an allocation made while no register is free, and nothing is
\* written.
C5_ExhaustionFails ==
    (pc # "start" /\ InGrammar(func) /\ SymbolicValues(func) > Len(XMM_REGS)) =>
        /\ pc = "raised"
        /\ gen.exc = "RuntimeError"
        /\ gen.reg_alloc.free_xmm = <<>>
        /\ asm_file = NoFile

\* the text of the trip count of a counted loop, as the counter is loaded
TripText(s) ==
    IF s.iter.args[1].type = "Name" THEN s.iter.args[1].id
    ELSE PyStr(s.iter.args[1].value)

\* every for statement of the function is a counted loop over a name or a
\* literal
LoopsInGrammar(f) ==
    \A i \in 1..Len(ForsOf(f)) :
        IsCountedLoop(ForsOf(f)[i]) /\ TripInGrammar(ForsOf(f)[i])

LabelLines(lab) ==
    { k \in 1..Len(gen.lines) : gen.lines[k].mn = "label" /\ gen.lines[k].dst = lab }

BranchLines(lab) ==
    { k \in 1..Len(gen.lines) : gen.lines[k].mn = "jnz" /\ gen.lines[k].dst = lab }

\* C6: in a compiled function, each counted loop  for <var> in range(<n>)  is
\* lowered exactly once, to the initialisation of the counter from <n>, a
\* label, the lines of the body, the decrement of the counter and the branch
\* to that label, in this order; no two loops get the same label.  The i-th
\* loop in source order is the one given the id i.
C6_LoopLowering ==
    (pc = "done" /\ LoopsInGrammar(func)) =>
        /\ gen.loop_count = Len(ForsOf(func))
        /\ Cardinality(CallsOf("visit_For")) = Len(ForsOf(func))
        /\ Cardinality({ k \in 1..Len(gen.lines) : gen.lines[k].mn \in {"label", "jnz"} })
              = 2 * Len(ForsOf(func)) + 1
        /\ \A i \in 1..Len(ForsOf(func)) :
              LET lab == "loop_" \o ToString(i)
                  cs  == { j \in CallsOf("visit_For") : gen.calls[j].key = lab }
              IN  /\ Cardinality(cs) = 1
                  /\ Cardinality(LabelLines(lab)) = 1
                  /\ Cardinality(BranchLines(lab)) = 1
                  /\ \A j \in cs :
                        LET c == gen.calls[j]
                        IN  /\ c.post - c.pre = 6 + LinesOfAll(ForsOf(func)[i].body)
                            /\ gen.lines[c.pre + 2] =
                                  Line("mov", "rcx", TripText(ForsOf(func)[i]), "loop counter")
                            /\ gen.lines[c.pre + 3] = Line("label", lab, "", "")
                            /\ gen.lines[c.post - 2] = Line("dec", "rcx", "", "")
                            /\ gen.lines[c.post - 1] = Line("jnz", lab, "", "")

\* a function with two loops one after the other and a loop inside a loop
\* has been compiled
C6_Witness ==
    /\ pc = "done"
    /\ LoopsInGrammar(func)
    /\ Len(func.body) >= 3
    /\ \E i \in 1..Len(func.body) :
          /\ func.body[i].type = "For"
          /\ func.body[i].body[1].type = "For"
    /\ Cardinality(BranchLines("loop_3")) = 1

\* C7: in a function of returns and counted loops, a reference to a name that
\* is no parameter, as an operand of an expression, as a trip count or as a
\* use of the induction variable, aborts the compilation, and nothing is
\* written.
C7_UndefinedNameFails ==
    (pc # "start" /\ InGrammar(func)
       /\ \E n \in NamesUsed(func) : Index(func.args, n) = -1) =>
        (pc = "raised" /\ asm_file = NoFile)

\* the pairs of an earlier and a later reference to the same name
Revisits ==
    { p \in CallsOf("visit_Name") \X CallsOf("visit_Name") :
        p[1] < p[2] /\ gen.calls[p[1]].key = gen.calls[p[2]].key }

\* C8, as stated: a later reference to a name returns the register of the
\* first one and appends no line.
C8_NoReload ==
    \A p \in Revisits :
        /\ gen.calls[p[2]].ret = gen.calls[p[1]].ret
        /\ gen.calls[p[2]].post = gen.calls[p[2]].pre

\* C8, amended: a later reference to a name returns the register of the first
\* one and appends one line, the load of that register from the argument
\* slot of the name, as the first reference did.
C8_ReloadSameRegister ==
    \A p \in Revisits :
        LET c1 == gen.calls[p[1]]
            c2 == gen.calls[p[2]]
        IN  /\ c2.ret = c1.ret
            /\ c2.post = c2.pre + 1
            /\ gen.lines[c2.post] = gen.lines[c1.post]
            /\ gen.lines[c2.post] =
                  Line("movq", c1.ret, GENERAL_REGS[Index(func.args, c1.key) + 1],
                       "Load argument " \o c1.key)

\* a function that refers twice to a parameter has been compiled
C8_Witness == pc = "done" /\ Revisits # {}

\* the lines that write a floating register
Writes(r) ==
    { k \in 1..Len(gen.lines) :
        gen.lines[k].mn \in Arithmetic \cup {"movq"} /\ gen.lines[k].dst = r }

\* C10: in the lines of a compiled function, each register an arithmetic
\* instruction uses was written by an earlier line, and the register returned
\* for a nested operation is the one its result was computed into.
C10_OperandsWritten ==
    pc = "done" =>
        /\ \A k \in 1..Len(gen.lines) :
              gen.lines[k].mn \in Arithmetic =>
                  \A r \in {gen.lines[k].dst, gen.lines[k].src} :
                      \E j \in Writes(r) : j < k
        /\ \A i \in CallsOf("evaluate_node") :
              gen.calls[i].ret = gen.lines[gen.calls[i].post].dst

====
